---- MODULE Spec2Model ----
(***************************************************************************)
(* Asset-readiness workflow of planet-download.py (class PlanetImages):    *)
(*   activate_imgs -> check_if_images_active -> download_images            *)
(* as called in sequence by main(), and the scene selection before it:     *)
(*   get_all_avail_image_ids -> get_unique_image_dates ->                  *)
(*   download_image_thumbnails -> filter_images_for_quality ->             *)
(*   get_imgs_to_download.                                                 *)
(* Scenes are identified by small integers (the catalog-unique 'id' of a   *)
(* feature).  An id is <acquisition date><serial>, written here as the     *)
(* number 10 * serial + date: scenes 1 and 11 were acquired on date 1.     *)
(***************************************************************************)
EXTENDS Integers, Sequences, FiniteSets, TLC

\* ------------------------------------------------------------------ bounds
\* largest number of scenes in the candidate list imgs_to_download
MaxScenes == 2
\* largest number of times download_images is invoked on one PlanetImages
MaxRuns == 2

\* --------------------------------------------------------- program constants
\* num_loops = 21
num_loops == 21
\* time.sleep(30)
sleep_secs == 30

\* what the asset collection of a scene can say about the requested asset
\* type: the type is missing from the map ("absent"), or its 'status' field
Statuses == {"absent", "inactive", "activating", "active", "failed"}

\* content of the destination file <img_dir>/<img_id>.tif
\*   "none": no such file, "old": left by an earlier run of the script,
\*   "new": written by this run, "partial": opened for writing, write failed
FileStates == {"none", "old", "new", "partial"}

\* outcome of one pass through the body of the download loop, by which
\* message the code prints
Outcomes == {"Saved", "AlreadyPresent", "Failed"}

\* the hop of the download at which an exception is raised ("none": no hop)
Hops == {"metadata", "self", "location", "bytes", "write", "none"}

VARIABLES
    pc,               \* position of main(): "ids", "dedup", "thumbs", "filter", "select",
                      \* "activate", "poll", "download", "done", "aborted"
    response,         \* catalog: the features (scene ids, in order) the quick-search returns
    search_json,      \* self.search_json['features'] (list of scenes)
    image_list,       \* self.image_list (list of scenes)
    unique_dates,     \* self.unique_dates (list of dates)
    thumbs,           \* scenes with a file <thumb_dir>/<img_id>.tif
    means,            \* per thumbnail read by filter_images_for_quality: <<nir_mean, r_mean>>
    good_imgs,        \* self.good_imgs (list of thumbnail paths)
    assetMap,         \* provider: status of the requested asset type of each scene while activate_imgs runs
    imgs_to_download, \* self.imgs_to_download (list of scenes)
    active_imgs,      \* self.active_imgs (list of scenes)
    all_imgs_active,  \* self.all_imgs_active
    idx,              \* position of the list iterator of the running for loop
    count,            \* local count of check_if_images_active
    error,            \* uncaught exception that ended the run: "none", "Exception", "KeyError", "ValueError"
    asked,            \* scenes whose asset collection activate_imgs has queried
    activated,        \* per scene: activation requests issued (GET activation_link)
    queries,          \* per scene: status queries issued by check_if_images_active
    observed,         \* scenes for which check_if_images_active received status 'active'
    failedSeen,       \* scenes for which check_if_images_active received status 'failed'
    sleeps,           \* number of time.sleep(30) calls made
    requery,          \* while check_if_images_active runs: last status it received for a scene
                      \* already in active_imgs ("active", "other"); "none" if none yet, and outside it
    files,            \* per scene: content of <img_dir>/<img_id>.tif
    fetches,          \* per scene: byte-fetch requests issued (GET download_url)
    results           \* per invocation of download_images: list of <<scene, outcome>>

\* the variables of the scene selection
selVars == <<response, search_json, image_list, unique_dates, thumbs, means, good_imgs>>

vars == <<selVars, pc, assetMap, imgs_to_download, active_imgs, all_imgs_active, idx, count,
          error, asked, activated, queries, observed, failedSeen, sleeps, requery,
          files, fetches, results>>

\* ------------------------------------------------------------- list helpers
\* list.index-like: does x occur in list s
InList(x, s) == \E k \in 1..Len(s) : s[k] = x

\* the set of elements of list s
Elems(s) == {s[k] : k \in 1..Len(s)}

\* list.remove(x): delete the first occurrence of x
Remove(s, x) ==
    LET k == CHOOSE j \in 1..Len(s) : s[j] = x /\ \A m \in 1..(j-1) : s[m] # x
    IN  SubSeq(s, 1, k-1) \o SubSeq(s, k+1, Len(s))

\* ---------------------------------------------------------- scene selection
\* the scenes the catalog can return: scene 11 shares its date with scene 1
SelIds == (1..MaxScenes) \cup {11}

\* image_id[0:8]: the acquisition date of a scene
DateOf(id) == id % 10

\* the search responses: lists of distinct scenes, in catalog order
Responses ==
    UNION {{r \in [1..n -> SelIds] : \A j, k \in 1..n : r[j] = r[k] => j = k} :
           n \in 0..MaxScenes}

\* band means <<nir_mean, r_mean>> a thumbnail can have (rounded to integers)
Means == {<<150, 5>>, <<150, 50>>, <<100, 9>>, <<99, 9>>, <<100, 10>>, <<99, 10>>}

\* f'{self.thumb_dir}/{img_id}.tif'
Path(id) == <<"thumbnails", id, ".tif">>

\* os.path.basename(img) without its last 4 characters
BaseName(path) == path[2]

\* the loop of get_unique_image_dates after the first k features: a feature
\* is appended to image_list iff its date is not yet in unique_dates
RECURSIVE UniqueByDate(_, _)
UniqueByDate(features, k) ==
    IF k = 0 THEN [unique_dates |-> <<>>, image_list |-> <<>>]
    ELSE LET prev == UniqueByDate(features, k - 1)
             date == DateOf(features[k])
         IN  IF ~InList(date, prev.unique_dates)
             THEN [unique_dates |-> Append(prev.unique_dates, date),
                   image_list   |-> Append(prev.image_list, features[k])]
             ELSE prev

\* (variant of IsBad: the near-infrared comparison is strict)
IsBad_strictNir(m) == m[1] > 100 /\ m[2] < 10

\* nir_mean >= 100 and r_mean < 10
IsBad(m) == m[1] >= 100 /\ m[2] < 10

\* glob.glob(f'{self.thumb_dir}/*.tif') when the directory holds the
\* thumbnails of the scenes S: the paths of all of them, each once, in the
\* order of the directory, which is any order
GlobResults(S) ==
    {[k \in 1..Cardinality(S) |-> Path(o[k])] :
        o \in {f \in [1..Cardinality(S) -> S] :
                  \A j, k \in 1..Cardinality(S) : f[j] = f[k] => j = k}}

\* the loop of filter_images_for_quality over the list thumb_imgs: the path
\* of every thumbnail whose means are not bad is appended, in the order of
\* thumb_imgs; m[id] are the means read from the thumbnail of scene id
GoodImgs(thumb_imgs, m) ==
    LET kept(image) == ~IsBad(m[BaseName(image)])
    IN  SelectSeq(thumb_imgs, kept)

\* [i for i in self.search_json['features'] if i['id'] in img_base_names]
ImgsToDownload(features, good) ==
    LET img_base_names == [k \in 1..Len(good) |-> BaseName(good[k])]
        wanted(id) == InList(id, img_base_names)
    IN  SelectSeq(features, wanted)

\* The selection states with which main() reaches activate_imgs when the
\* catalog returns the scenes 1..n (n > 0, distinct dates), the thumbnails
\* directory was empty and all thumbnails pass the filter with means
\* (150, 50); for n = 0, when the catalog returns scene 1 alone and the
\* thumbnail of scene 1 is rejected.  good_imgs is in any directory order.
SelectionFor(n) ==
    LET r == IF n = 0 THEN <<1>> ELSE [k \in 1..n |-> k]
        M == IF n = 0 THEN {<<150, 5>>, <<100, 9>>} ELSE {<<150, 50>>}
    IN  /\ response = r
        /\ search_json = r
        /\ image_list = r
        /\ unique_dates = [k \in 1..Len(r) |-> DateOf(r[k])]
        /\ thumbs = Elems(r)
        /\ \E m \in M : \E thumb_imgs \in GlobResults(Elems(r)) :
               /\ means = [s \in Elems(r) |-> m]
               /\ good_imgs = GoodImgs(thumb_imgs, [s \in Elems(r) |-> m])

\* State after PlanetImages(): the lists are empty; the catalog holds some
\* response and the thumbnails directory some files left by earlier runs.
InitSelect ==
    /\ pc = "ids"
    /\ response \in Responses
    /\ thumbs \in SUBSET SelIds
    /\ search_json = <<>>
    /\ image_list = <<>>
    /\ unique_dates = <<>>
    /\ means = <<>>
    /\ good_imgs = <<>>
    /\ imgs_to_download = <<>>
    /\ active_imgs = <<>>
    /\ all_imgs_active = FALSE
    /\ assetMap = <<>>
    /\ files = <<>>
    /\ activated = <<>>
    /\ queries = <<>>
    /\ fetches = <<>>
    /\ idx = 0
    /\ count = 0
    /\ error = "none"
    /\ asked = {}
    /\ observed = {}
    /\ failedSeen = {}
    /\ sleeps = 0
    /\ requery = "none"
    /\ results = <<>>

\* the variables of the readiness workflow other than imgs_to_download
flowVars == <<assetMap, active_imgs, all_imgs_active, idx, count, asked, activated,
              queries, observed, failedSeen, sleeps, requery, files, fetches, results>>

\* get_all_avail_image_ids: one search, the ids are printed
get_all_avail_image_ids ==
    /\ pc = "ids"
    /\ search_json' = response
    /\ pc' = "dedup"
    /\ UNCHANGED <<response, image_list, unique_dates, thumbs, means, good_imgs,
                   imgs_to_download, error, flowVars>>

\* get_unique_image_dates: a second search, then the first scene of every
\* date is kept; ValueError when image_list stays empty
get_unique_image_dates ==
    /\ pc = "dedup"
    /\ search_json' = response
    /\ LET u == UniqueByDate(response, Len(response))
       IN  /\ unique_dates' = u.unique_dates
           /\ image_list' = u.image_list
           /\ IF Len(u.image_list) # 0
              THEN pc' = "thumbs" /\ error' = error
              ELSE pc' = "aborted" /\ error' = "ValueError"
    /\ UNCHANGED <<response, thumbs, means, good_imgs, imgs_to_download, flowVars>>

\* download_image_thumbnails: <thumb_dir>/<img_id>.tif is written for every
\* scene of image_list that has no such file yet
download_image_thumbnails ==
    /\ pc = "thumbs"
    /\ thumbs' = thumbs \cup Elems(image_list)
    /\ pc' = "filter"
    /\ UNCHANGED <<response, search_json, image_list, unique_dates, means, good_imgs,
                   imgs_to_download, error, flowVars>>

\* filter_images_for_quality: every .tif file of the thumbnails directory is
\* read, in the order glob returns them; m is what the files contain
filter_images_for_quality ==
    /\ pc = "filter"
    /\ \E m \in [thumbs -> Means] : \E thumb_imgs \in GlobResults(thumbs) :
           /\ means' = m
           /\ good_imgs' = GoodImgs(thumb_imgs, m)
    /\ pc' = "select"
    /\ UNCHANGED <<response, search_json, image_list, unique_dates, thumbs,
                   imgs_to_download, error, flowVars>>

\* get_imgs_to_download; main() goes on to activate_imgs
get_imgs_to_download ==
    /\ pc = "select"
    /\ imgs_to_download' = ImgsToDownload(search_json, good_imgs)
    /\ pc' = "activate"
    /\ UNCHANGED <<selVars, error, flowVars>>

\* main() up to the call of activate_imgs
NextSelect ==
    \/ get_all_avail_image_ids
    \/ get_unique_image_dates
    \/ download_image_thumbnails
    \/ filter_images_for_quality
    \/ get_imgs_to_download

SpecSelect == InitSelect /\ [][NextSelect]_vars

TypeOKSelect ==
    /\ pc \in {"ids", "dedup", "thumbs", "filter", "select", "activate", "aborted"}
    /\ response \in Responses
    /\ search_json \in {<<>>, response}
    /\ Elems(image_list) \subseteq Elems(response)
    /\ Len(unique_dates) = Len(image_list)
    /\ thumbs \subseteq SelIds
    /\ DOMAIN means \subseteq thumbs
    /\ \A k \in 1..Len(good_imgs) : BaseName(good_imgs[k]) \in thumbs
    /\ Elems(imgs_to_download) \subseteq Elems(response)
    /\ error \in {"none", "ValueError"}

\* ------------------------------------------------------------------- Init
\* State when main() calls activate_imgs: imgs_to_download holds the candidate
\* scenes (distinct ids) in catalog order, nothing is active, nothing polled.
Init ==
    \E n \in 0..MaxScenes :
        /\ SelectionFor(n)
        /\ imgs_to_download = [k \in 1..n |-> k]
        /\ assetMap \in [1..n -> Statuses]
        /\ files \in [1..n -> {"none", "old"}]
        /\ activated = [k \in 1..n |-> 0]
        /\ queries = [k \in 1..n |-> 0]
        /\ fetches = [k \in 1..n |-> 0]
        /\ pc = "activate"
        /\ active_imgs = <<>>
        /\ all_imgs_active = FALSE
        /\ idx = 0
        /\ count = 0
        /\ error = "none"
        /\ asked = {}
        /\ observed = {}
        /\ failedSeen = {}
        /\ sleeps = 0
        /\ requery = "none"
        /\ results = <<>>

\* the scenes of the candidate list handed to activate_imgs
Candidates == DOMAIN assetMap

\* ----------------------------------------------------------- activate_imgs
\* (variant of Classify: the 'active' branch also requests activation)
Classify_activatesActive(st) ==
    IF st = "absent" THEN "unsupported"
    ELSE IF st \in {"inactive", "active"} THEN "activate"
    ELSE "unknown"

\* What activate_imgs does with a scene whose asset collection answers st:
\*   "activate": status 'inactive', the activation link is requested
\*   "keep":     status 'active', nothing is requested
\*   "unknown":  any other status, the scene is removed from imgs_to_download
\*   "unsupported": result.json()[IMAGE_TYPE] raises KeyError, the scene is removed
Classify(st) ==
    IF st = "absent" THEN "unsupported"
    ELSE IF st = "inactive" THEN "activate"
    ELSE IF st = "active" THEN "keep"
    ELSE "unknown"

\* One pass through the body of `for i in self.imgs_to_download`.  The list
\* iterator yields the element at its position and advances by one, whether
\* or not the body removed an element from the list it iterates.
activate_imgs_body ==
    /\ pc = "activate"
    /\ idx < Len(imgs_to_download)
    /\ LET i   == imgs_to_download[idx + 1]
           cls == Classify(assetMap[i])
       IN  /\ asked' = asked \cup {i}
           /\ activated' = IF cls = "activate"
                             THEN [activated EXCEPT ![i] = @ + 1]
                             ELSE activated
           /\ imgs_to_download' = IF cls \in {"unknown", "unsupported"}
                                    THEN Remove(imgs_to_download, i)
                                    ELSE imgs_to_download
    /\ idx' = idx + 1
    /\ UNCHANGED <<pc, assetMap, active_imgs, all_imgs_active, count, error, queries,
                   observed, failedSeen, sleeps, requery, files, fetches, results>>
    /\ UNCHANGED selVars

\* The iterator is exhausted: activate_imgs returns and main() calls
\* check_if_images_active (count = 0, first round begins).
activate_imgs_return ==
    /\ pc = "activate"
    /\ idx >= Len(imgs_to_download)
    /\ pc' = "poll"
    /\ idx' = 0
    /\ count' = 0
    /\ UNCHANGED <<assetMap, imgs_to_download, active_imgs, all_imgs_active, error, asked,
                   activated, queries, observed, failedSeen, sleeps, requery, files,
                   fetches, results>>
    /\ UNCHANGED selVars

\* -------------------------------------------------- check_if_images_active
\* success_states = ['active']
success_states == {"active"}

\* (variant of IsSuccess: every status that is not 'failed' counts as ready)
IsSuccess_anyStatus(st) == st # "failed"

\* img_status in success_states
IsSuccess(st) == st \in success_states

\* (variant of AllActive: the run counts as ready once any scene is ready)
AllActive_anyActive == Len(active_imgs) > 0

\* len(self.active_imgs) == len(self.imgs_to_download)
AllActive == Len(active_imgs) = Len(imgs_to_download)

\* (variant of ActiveAfter: no membership test before the append)
ActiveAfter_noMembershipTest(st, i) ==
    IF IsSuccess(st) THEN Append(active_imgs, i) ELSE active_imgs

\* (variant of ActiveAfter: a scene that no longer answers 'active' is taken
\* out of the ready list)
ActiveAfter_dropsOnOtherStatus(st, i) ==
    IF IsSuccess(st) /\ ~InList(i, active_imgs) THEN Append(active_imgs, i)
    ELSE IF ~IsSuccess(st) /\ InList(i, active_imgs) THEN Remove(active_imgs, i)
    ELSE active_imgs

\* self.active_imgs after the elif of a status query for scene i answered st
\* (st not 'failed'):
\*   elif img_status in success_states and i not in self.active_imgs:
\*       self.active_imgs.append(i)
ActiveAfter(st, i) ==
    IF IsSuccess(st) /\ ~InList(i, active_imgs) THEN Append(active_imgs, i)
    ELSE active_imgs

\* One pass through the body of `for i in self.imgs_to_download` of the
\* current round: one status query for scene i, answered st by the provider.
check_query ==
    /\ pc = "poll"
    /\ idx < Len(imgs_to_download)
    /\ LET i == imgs_to_download[idx + 1]
       IN  \E st \in Statuses :
             /\ queries' = [queries EXCEPT ![i] = @ + 1]
             /\ observed' = IF st = "active" THEN observed \cup {i} ELSE observed
             /\ failedSeen' = IF st = "failed" THEN failedSeen \cup {i} ELSE failedSeen
             /\ requery' = IF ~InList(i, active_imgs) THEN requery
                            ELSE IF st = "active" THEN "active" ELSE "other"
             /\ IF st = "absent"
                  THEN \* result.json()[IMAGE_TYPE] raises KeyError, not caught
                       /\ pc' = "aborted"
                       /\ error' = "KeyError"
                       /\ UNCHANGED <<active_imgs, idx>>
                  ELSE IF st = "failed"
                  THEN \* raise Exception(), not caught by main()
                       /\ pc' = "aborted"
                       /\ error' = "Exception"
                       /\ UNCHANGED <<active_imgs, idx>>
                  ELSE /\ active_imgs' = ActiveAfter(st, i)
                       /\ idx' = idx + 1
                       /\ UNCHANGED <<pc, error>>
    /\ UNCHANGED <<assetMap, imgs_to_download, all_imgs_active, count, asked, activated,
                   sleeps, files, fetches, results>>
    /\ UNCHANGED selVars

\* (variant of LoopAgain: the loop has no budget)
LoopAgain_noBudget(c) == TRUE

\* does the while loop go on after a round that ended with count = c
\* (while(count < num_loops))
LoopAgain(c) == c < num_loops

\* is time.sleep(30) executed at the end of a round whose length test gave
\* allActive (the break skips it, nothing else does)
SleepsAfterRound(allActive) == ~allActive

\* End of a round: count += 1, the length test, then either break or
\* time.sleep(30) followed by the while test.  When the loop is left,
\* check_if_images_active returns and main() calls download_images.
check_round_end ==
    /\ pc = "poll"
    /\ idx >= Len(imgs_to_download)
    /\ count' = count + 1
    /\ all_imgs_active' = (all_imgs_active \/ AllActive)
    /\ sleeps' = IF SleepsAfterRound(AllActive) THEN sleeps + 1 ELSE sleeps
    /\ idx' = 0
    /\ IF AllActive \/ ~LoopAgain(count + 1)
         THEN /\ pc' = "download"
              /\ results' = Append(results, <<>>)
              /\ requery' = "none"
         ELSE /\ pc' = "poll"
              /\ UNCHANGED <<results, requery>>
    /\ UNCHANGED <<assetMap, imgs_to_download, active_imgs, error, asked, activated,
                   queries, observed, failedSeen, files, fetches>>
    /\ UNCHANGED selVars

\* ---------------------------------------------------------- download_images
\* (variant of AfterExcept: the exception ends the loop)
AfterExcept_abortsBatch(i) == Len(active_imgs)

\* position of the iterator of `for image in self.active_imgs` after the
\* except clause has handled an exception raised in the pass at position i
AfterExcept(i) == i + 1

\* is the byte-fetch request (requests.get(download_url)) issued in a pass
\* in which hop h raises and the destination file is in state f
FetchIssued(h, f) == h \in {"bytes", "write", "none"}

\* (variant of OutcomeOf: no existence test before the write)
OutcomeOf_noExistenceTest(h, f) ==
    IF h \in {"metadata", "self", "location", "bytes", "write"} THEN "Failed"
    ELSE "Saved"

\* outcome of a pass in which hop h raises, destination file in state f
OutcomeOf(h, f) ==
    IF h \in {"metadata", "self", "location", "bytes"} THEN "Failed"
    ELSE IF f # "none" THEN "AlreadyPresent"
    ELSE IF h = "write" THEN "Failed"
    ELSE "Saved"

\* One pass through the body of `for image in self.active_imgs`, with an
\* exception raised at hop h (or at none).  partial: when the write raises,
\* whether open(..., 'wb') had already created the file.
download_body ==
    /\ pc = "download"
    /\ idx < Len(active_imgs)
    /\ LET image == active_imgs[idx + 1]
       IN  \E h \in Hops, partial \in BOOLEAN :
             LET out == OutcomeOf(h, files[image])
             IN  /\ fetches' = IF FetchIssued(h, files[image])
                                 THEN [fetches EXCEPT ![image] = @ + 1]
                                 ELSE fetches
                 /\ files' = IF out = "Saved"
                               THEN [files EXCEPT ![image] = "new"]
                               ELSE IF h = "write" /\ files[image] = "none" /\ partial
                               THEN [files EXCEPT ![image] = "partial"]
                               ELSE files
                 /\ results' = [results EXCEPT ![Len(results)] = Append(@, <<image, out>>)]
                 /\ idx' = IF out = "Failed" THEN AfterExcept(idx) ELSE idx + 1
    /\ UNCHANGED <<pc, assetMap, imgs_to_download, active_imgs, all_imgs_active, count,
                   error, asked, activated, queries, observed, failedSeen, sleeps, requery>>
    /\ UNCHANGED selVars

\* The iterator is exhausted: download_images returns.
download_return ==
    /\ pc = "download"
    /\ idx >= Len(active_imgs)
    /\ pc' = "done"
    /\ UNCHANGED <<assetMap, imgs_to_download, active_imgs, all_imgs_active, idx, count,
                   error, asked, activated, queries, observed, failedSeen, sleeps, requery,
                   files, fetches, results>>
    /\ UNCHANGED selVars

\* download_images is invoked again on the same object (same active_imgs,
\* files as the previous invocation left them).
download_again ==
    /\ pc = "done"
    /\ Len(results) < MaxRuns
    /\ pc' = "download"
    /\ idx' = 0
    /\ results' = Append(results, <<>>)
    /\ UNCHANGED <<assetMap, imgs_to_download, active_imgs, all_imgs_active, count, error,
                   asked, activated, queries, observed, failedSeen, sleeps, requery, files,
                   fetches>>
    /\ UNCHANGED selVars

\* ------------------------------------------------------------ specification
\* main(): activate_imgs(), check_if_images_active(), download_images()
Next ==
    \/ activate_imgs_body
    \/ activate_imgs_return
    \/ check_query
    \/ check_round_end
    \/ download_body
    \/ download_return

Spec == Init /\ [][Next]_vars

\* main() is one sequential thread and every remote call returns: a step
\* that can be taken is eventually taken.
SpecFair == Spec /\ WF_vars(Next)

\* download_images called repeatedly on one object.  The initial states are
\* states of main() at the call of download_images: n scenes that were all
\* 'inactive' when activate_imgs ran, of which the first m were observed
\* 'active' by check_if_images_active (all of them in round 1 when m = n, the
\* rest never within the num_loops rounds when m < n).
InitDownload ==
    \E n \in 0..MaxScenes : \E m \in 0..n :
        /\ SelectionFor(n)
        /\ imgs_to_download = [k \in 1..n |-> k]
        /\ assetMap = [k \in 1..n |-> "inactive"]
        /\ files \in [1..n -> {"none", "old"}]
        /\ activated = [k \in 1..n |-> 1]
        /\ queries = [k \in 1..n |-> IF m = n THEN 1 ELSE num_loops]
        /\ fetches = [k \in 1..n |-> 0]
        /\ pc = "download"
        /\ active_imgs = [k \in 1..m |-> k]
        /\ all_imgs_active = (m = n)
        /\ idx = 0
        /\ count = IF m = n THEN 1 ELSE num_loops
        /\ error = "none"
        /\ asked = 1..n
        /\ observed = 1..m
        /\ failedSeen = {}
        /\ sleeps = IF m = n THEN 0 ELSE num_loops
        /\ requery = "none"
        /\ results = << <<>> >>

NextDownload ==
    \/ download_body
    \/ download_return
    \/ download_again

SpecDownload == InitDownload /\ [][NextDownload]_vars

TypeOK ==
    /\ pc \in {"activate", "poll", "download", "done", "aborted"}
    /\ Elems(imgs_to_download) \subseteq Candidates
    /\ Elems(active_imgs) \subseteq Candidates
    /\ all_imgs_active \in BOOLEAN
    /\ idx \in 0..(MaxScenes + 1)
    /\ count \in 0..num_loops
    /\ sleeps \in 0..num_loops
    /\ error \in {"none", "Exception", "KeyError"}
    /\ requery \in {"none", "active", "other"}
    /\ files \in [Candidates -> FileStates]
    /\ Len(results) <= MaxRuns
    /\ \A r \in 1..Len(results) : \A k \in 1..Len(results[r]) :
           results[r][k][1] \in Candidates /\ results[r][k][2] \in Outcomes

\* ------------------------------------------------------- derived quantities
\* check_if_images_active has been entered (activate_imgs has returned)
PollerStarted == pc \in {"poll", "download", "done", "aborted"}

\* check_if_images_active has returned normally
PollerReturned == pc \in {"download", "done"}

\* the scenes attempted, in order, by invocation r of download_images
Attempted(r) == [k \in 1..Len(results[r]) |-> results[r][k][1]]

\* the outcomes, in order, of invocation r of download_images
OutcomesOf(r) == [k \in 1..Len(results[r]) |-> results[r][k][2]]

\* scene s was attempted by some invocation of download_images
Downloaded(s) == \E r \in 1..Len(results) : InList(s, Attempted(r))

\* time spent in time.sleep
Paused == sleeps * sleep_secs

\* ====================================================================
\* Claims
\* ====================================================================

\* C1: when check_if_images_active observes status 'failed' for a pending
\* asset, the run is not aborted, and the failed asset is never among the
\* scenes download_images attempts.
C1_FailedDoesNotAbort ==
    \A s \in failedSeen : pc # "aborted" /\ ~Downloaded(s)

\* C2: a scene whose requested asset type is absent from its asset map when
\* activate_imgs runs is not in imgs_to_download when the Poller starts, is
\* never status-queried by the Poller and never downloaded, at every position
\* of the candidate list.
C2_UnsupportedNeverPolled ==
    PollerStarted =>
        \A s \in Candidates :
            assetMap[s] = "absent" =>
                /\ ~InList(s, imgs_to_download)
                /\ queries[s] = 0
                /\ ~Downloaded(s)

\* C3: two invocations of download_images on the same ready set, neither of
\* which hits an exception and the first of which saves every asset, report
\* every asset AlreadyPresent in the second invocation and issue exactly one
\* byte-fetch request per asset in total.
C3_OneFetchOverTwoRuns ==
    ( /\ pc = "done"
      /\ Len(results) = 2
      /\ \A k \in 1..Len(results[1]) : results[1][k][2] = "Saved"
      /\ \A k \in 1..Len(results[2]) : results[2][k][2] # "Failed" )
    => /\ \A k \in 1..Len(results[2]) : results[2][k][2] = "AlreadyPresent"
       /\ \A s \in Elems(active_imgs) : fetches[s] = 1

\* C4: if a pending asset has been status-queried and has never reported
\* 'active' or 'failed', and every status query found the requested asset
\* type, then once the Poller has ended it has executed exactly num_loops
\* rounds, has queried that asset num_loops times, all_imgs_active is False
\* and no error was raised.
C4_StuckAssetUsesWholeBudget ==
    (PollerStarted /\ pc # "poll" /\ error # "KeyError") =>
        \A s \in Elems(imgs_to_download) :
            ( /\ queries[s] >= 1
              /\ s \notin observed
              /\ s \notin failedSeen )
            => /\ count = num_loops
               /\ queries[s] = num_loops
               /\ ~all_imgs_active
               /\ error = "none"

\* C5: once every asset of the (non-empty) pending set has been observed
\* 'active' (every status query having found the requested asset type), the
\* Poller is finishing the round in which the last one was observed, or it
\* has returned with all_imgs_active = True having queried every asset
\* exactly once per executed round; it never ends otherwise.
C5_StopsWhenAllObservedActive ==
    ( /\ PollerStarted
      /\ error # "KeyError"
      /\ imgs_to_download # <<>>
      /\ Elems(imgs_to_download) \subseteq observed )
    => \/ pc = "poll" /\ count < num_loops /\ idx > 0
       \/ /\ PollerReturned
          /\ all_imgs_active
          /\ \A s \in Elems(imgs_to_download) : queries[s] = count

\* C6: when the budget of num_loops rounds is used up with assets still
\* pending, the run goes on to download_images with all_imgs_active = False;
\* and in every run download_images attempts, fetches and writes only scenes
\* for which the Poller received status 'active'.
C6_OnlyObservedActiveDownloaded ==
    /\ (count = num_loops /\ ~AllActive) => (PollerReturned /\ ~all_imgs_active)
    /\ \A s \in Candidates :
           (Downloaded(s) \/ fetches[s] > 0 \/ files[s] \in {"new", "partial"})
               => s \in observed

\* reached: the budget was used up with scene 2 never observed active, and
\* scene 1 (observed active) was saved by download_images
C6_Witness ==
    /\ pc = "done"
    /\ count = num_loops
    /\ ~all_imgs_active
    /\ InList(2, imgs_to_download) /\ 2 \notin observed
    /\ results = << << <<1, "Saved">> >> >>

\* C7: every candidate scene whose requested asset is 'inactive' when
\* activate_imgs runs has had exactly one activation request issued when the
\* Poller starts, whatever happens to the other scenes of the batch.
C7_InactiveActivatedOnce ==
    PollerStarted =>
        \A s \in Candidates : assetMap[s] = "inactive" => activated[s] = 1

\* C8: for every scene that activate_imgs queried and found 'active', no
\* activation request is issued and the scene stays in imgs_to_download.
C8_ActiveNotActivated ==
    \A s \in asked :
        assetMap[s] = "active" => (activated[s] = 0 /\ InList(s, imgs_to_download))

\* reached: scene 1 was queried and found 'active', scene 2 was queried and
\* dropped; scene 1 alone is handed to the Poller, with no activation request
C8_Witness ==
    /\ pc = "poll"
    /\ Cardinality(Candidates) = 2
    /\ assetMap[1] = "active" /\ assetMap[2] = "activating"
    /\ asked = {1, 2}
    /\ activated[1] = 0
    /\ imgs_to_download = <<1>>

\* C9: an exception at any hop of one pass of the download loop does not end
\* the loop: the scenes attempted by an invocation of download_images are, in
\* order and once each, the scenes of active_imgs up to the iterator, and all
\* of active_imgs when the invocation has returned.
C9_FailureDoesNotAbortBatch ==
    (pc \in {"download", "done"}) =>
        Attempted(Len(results)) =
            SubSeq(active_imgs, 1, IF pc = "done" THEN Len(active_imgs) ELSE idx)

\* reached: two ready scenes, the first pass failed, the second one saved
C9_Witness ==
    /\ pc = "done"
    /\ Len(active_imgs) = 2
    /\ Len(results) = 1
    /\ OutcomesOf(1) = <<"Failed", "Saved">>

\* C10: a Poller run of r rounds makes exactly r - 1 pauses of sleep_secs
\* each: none after the last round.
C10_PausesOnlyBetweenRounds ==
    PollerReturned => (sleeps = count - 1 /\ Paused = sleep_secs * (count - 1))

\* C11: when no scene is left after deduplication and the quality filter,
\* the run stops with an error before activate_imgs is called: main() never
\* calls activate_imgs with an empty imgs_to_download.
C11_EmptySelectionStops ==
    pc = "activate" => imgs_to_download # <<>>

\* C12: the list handed to activate_imgs holds at most one scene per
\* acquisition date, and every scene in it is the first scene of its date in
\* the order of the search response, whatever the response and whatever
\* thumbnails the directory held at the start.
C12_FirstSceneOfEachDate ==
    pc = "activate" =>
        /\ \A j, k \in 1..Len(imgs_to_download) :
               DateOf(imgs_to_download[j]) = DateOf(imgs_to_download[k]) => j = k
        /\ \A k \in 1..Len(imgs_to_download) :
               \E j \in 1..Len(response) :
                   /\ response[j] = imgs_to_download[k]
                   /\ \A i \in 1..(j - 1) : DateOf(response[i]) # DateOf(response[j])

\* C13: once filter_images_for_quality has run, a thumbnail is missing from
\* good_imgs exactly when its near-infrared mean is >= 100 and its red mean
\* is < 10: means (150, 5) and (100, 9) are rejected, (150, 50), (99, 9) and
\* (100, 10) are retained, and every thumbnail that is not rejected is in
\* good_imgs.
C13_RejectsExactlyBadPreviews ==
    pc \in {"select", "activate"} =>
        \A id \in thumbs :
            LET nir == means[id][1]
                red == means[id][2]
                retained == InList(Path(id), good_imgs)
            IN  /\ ~retained <=> (nir >= 100 /\ red < 10)
                /\ means[id] \in {<<150, 5>>, <<100, 9>>} => ~retained
                /\ means[id] \in {<<150, 50>>, <<99, 9>>, <<100, 10>>} => retained

\* reached: the filter has read two thumbnails on the two sides of each
\* threshold, (100, 9) and (100, 10), and kept only the second
C13_Witness ==
    /\ pc = "select"
    /\ thumbs = {1, 2}
    /\ means[1] = <<100, 9>>
    /\ means[2] = <<100, 10>>
    /\ good_imgs = <<Path(2)>>

\* C14: a candidate scene whose requested asset is present with a status
\* other than 'active' and 'inactive' when activate_imgs runs is not in
\* imgs_to_download when the Poller starts and is never status-queried by the
\* Poller, at every position of the candidate list.
C14_UnknownStatusNeverPolled ==
    PollerStarted =>
        \A s \in Candidates :
            assetMap[s] \in {"activating", "failed"} =>
                (~InList(s, imgs_to_download) /\ queries[s] = 0)

\* C15: a scene that is in the ready list active_imgs is not status-queried
\* again: no step issues a status query for a scene already in active_imgs.
C15_ReadyNotQueriedAgain ==
    [][\A s \in Candidates : InList(s, active_imgs) => queries'[s] = queries[s]]_vars

\* C16: once check_if_images_active has returned, all_imgs_active is True
\* exactly when every scene of imgs_to_download is in active_imgs; with an
\* empty imgs_to_download no status query was issued and the run is marked
\* fully ready.
C16_FlagIffAllReady ==
    PollerReturned =>
        /\ all_imgs_active <=> (Elems(imgs_to_download) \subseteq Elems(active_imgs))
        /\ imgs_to_download = <<>> =>
               (all_imgs_active /\ \A s \in Candidates : queries[s] = 0)

\* reached: the last pending scene became 'active' in round num_loops and
\* the run is marked fully ready
C16_Witness ==
    /\ pc = "download"
    /\ count = num_loops
    /\ sleeps = num_loops - 1
    /\ Len(imgs_to_download) = 2
    /\ all_imgs_active

\* C17: download_images never writes to a destination at which a file for
\* the scene exists: no step changes the content of an existing file.
C17_ExistingFileUntouched ==
    [][\A s \in Candidates : files[s] # "none" => files'[s] = files[s]]_vars

\* reached: the file of scene 1 was left by an earlier run, download_images
\* handled scene 1 without an exception, and the old file is still there
C17_Witness ==
    /\ pc = "done"
    /\ 1 \in Candidates
    /\ files[1] = "old"
    /\ fetches[1] = 1
    /\ results[1] = << <<1, "AlreadyPresent">> >>

\* C18: while and after the Poller runs, active_imgs holds no scene twice
\* and only scenes of imgs_to_download (so that receiving 'active' again for
\* a scene already in it leaves it unchanged).
C18_ReadyListIsASubset ==
    /\ \A j, k \in 1..Len(active_imgs) : active_imgs[j] = active_imgs[k] => j = k
    /\ Elems(active_imgs) \subseteq Elems(imgs_to_download)

\* reached: scene 2 was already in active_imgs when a later status query for
\* it was answered 'active' again
C18_Witness ==
    /\ pc = "poll"
    /\ requery = "active"
    /\ active_imgs = <<2>>
    /\ queries[2] = 2

\* C19: no step puts a scene that activate_imgs removed from imgs_to_download
\* back into imgs_to_download or into active_imgs, and no step takes a scene
\* out of active_imgs, whatever status a later query returns for it.
C19_TerminalStatesStable ==
    [][\A s \in Candidates :
          /\ ~InList(s, imgs_to_download) =>
                 (~InList(s, imgs_to_download') /\ ~InList(s, active_imgs'))
          /\ InList(s, active_imgs) => InList(s, active_imgs')]_vars

\* reached: scene 1 is in active_imgs and a later status query for it was
\* answered with a status other than 'active' (the run going on)
C19_Witness ==
    /\ pc = "poll"
    /\ requery = "other"
    /\ active_imgs = <<1>>
    /\ queries[1] = 2

\* the run has ended: main() has returned, or an uncaught exception ended it
Ended == pc \in {"done", "aborted"}

\* an upper bound on the number of steps main() can still take: the passes
\* left in the running loop, its return, and whole later loops at their longest
StepsLeft ==
    LET n    == Cardinality(Candidates)
        left == Len(imgs_to_download) - idx
    IN  IF pc = "activate"
          THEN (IF left > 0 THEN left ELSE 0) + 1 + num_loops * (n + 1) + (n + 1)
        ELSE IF pc = "poll"
          THEN (num_loops - count - 1) * (n + 1) + left + 1 + (n + 1)
        ELSE IF pc = "download"
          THEN (Len(active_imgs) - idx) + 1
        ELSE 0

\* C20 (liveness form): under fair scheduling every run eventually ends.
C20_EventuallyEnds == <>Ended

\* C20: the workflow always terminates.  The Poller never executes more than
\* num_loops rounds; the run stops only when it has ended (returned or
\* aborted); and every step lowers StepsLeft, a natural number, so that no run
\* takes more than StepsLeft steps from where it is, even if no asset ever
\* becomes active.
C20_Terminates ==
    /\ [](count <= num_loops)
    /\ [](Ended \/ ENABLED Next)
    /\ [](StepsLeft >= 0)
    /\ [][StepsLeft' < StepsLeft]_vars

\* reached: no asset ever became active, the budget was used up and the run
\* has finished
C20_Witness ==
    /\ pc = "done"
    /\ count = num_loops
    /\ imgs_to_download # <<>>
    /\ active_imgs = <<>>
    /\ observed = {}

====
